---- MODULE Spec2Model ----
(***************************************************************************)
(* The arcade shooter of src/src/game.py (class Game) as a state machine.  *)
(*                                                                         *)
(* Numbers.  The program computes in floats; the model computes in fixed   *)
(* point with three decimals:                                              *)
(*   positions and sizes   thousandths of a pixel          (x = 144000)    *)
(*   velocities            thousandths of a pixel / second (vx = 520000)   *)
(*   times                 milliseconds, as pygame's clock.tick returns    *)
(*   energy, shard value   thousandths of an energy point  (60000)         *)
(*   movement intent       thousandths                     (1000 = 1.0)    *)
(*   hitpoints             tenths (an asteroid has 1 + r/10)               *)
(*   star layer            tenths                                          *)
(*   angles                thousandths of a radian                         *)
(* pygame.Rect holds whole pixels: int() truncates toward zero and the     *)
(* rectangles below are in whole pixels, as in the program.                *)
(***************************************************************************)
EXTENDS Integers, Sequences, FiniteSets, TLC

\* ---- program constants -------------------------------------------------
WIDTH == 800
HEIGHT == 600
base_speed == 220
boost_mul == 2
energy_max == 120000
energy_start == 60000
spawn_start == 1000
ShotCooldown == 180
ShotDamage == 12000
BoostDrain == 20
ShieldDrain == 28
BulletSpeed == 520000
RedBulletSpeed == 280
SegCount == 8

\* playfield size in thousandths of a pixel (self.w, self.h)
W == WIDTH * 1000
H == HEIGHT * 1000

\* ---- bounds of the model -----------------------------------------------
\* number of Game.update calls followed from an initial world
MaxFrames == 2

\* ---- arithmetic --------------------------------------------------------
Max(a, b) == IF a >= b THEN a ELSE b
Min(a, b) == IF a <= b THEN a ELSE b
Abs(a) == IF a >= 0 THEN a ELSE -a

\* quotient rounded toward zero: the fixed-point image of a float product,
\* and Python's int() on a float
Quot(a, b) == IF a >= 0 THEN a \div b ELSE -((-a) \div b)

\* int(v) for v in thousandths: whole pixels, truncated toward zero
ToInt(v) == Quot(v, 1000)

\* v * dt for a velocity in thousandths per second and dt in milliseconds
Travel(v, dt) == Quot(v * dt, 1000)

\* v * (1.0 - 0.4 * dt): the drag factor is (2500 - dt) / 2500
Drag(v, dt) == Quot(v * (2500 - dt), 2500)

\* integer square root (math.hypot on fixed-point operands)
RECURSIVE SqrtBits(_, _, _)
SqrtBits(n, r, bit) ==
    IF bit = 0 THEN r
    ELSE IF (r + bit) * (r + bit) <= n THEN SqrtBits(n, r + bit, bit \div 2)
         ELSE SqrtBits(n, r, bit \div 2)

ISqrt(n) == SqrtBits(n, 0, 16384)

\* math.hypot(dx, dy) for dx, dy in thousandths, result in thousandths;
\* operands of 23 pixels or more are taken in tenths of a pixel so that the
\* squares fit and the root stays under 2^15.  The result is 0 only for
\* dx = dy = 0.
Hypot(dx, dy) ==
    IF Abs(dx) < 23000 /\ Abs(dy) < 23000
    THEN ISqrt(dx * dx + dy * dy)
    ELSE 100 * ISqrt(Quot(dx, 100) * Quot(dx, 100) + Quot(dy, 100) * Quot(dy, 100))

\* math.sin and math.cos for an angle in thousandths of a radian, result in
\* thousandths (Bhaskara's rational approximation on each half period, the
\* angle taken in hundredths of a radian)
SinHalf(a) == Quot(16000 * a * (314 - a), 492980 - 4 * a * (314 - a))
Sin(a) ==
    LET m == (a % 6283) \div 10
    IN IF m <= 314 THEN SinHalf(m) ELSE -SinHalf(Min(m - 314, 314))
Cos(a) == Sin(a + 1571)

\* ---- rectangles (pygame.Rect, whole pixels) ----------------------------
Rect(l, t, w, h) == [l |-> l, t |-> t, w |-> w, h |-> h]

\* pygame.Rect.colliderect: the interiors overlap; touching edges do not
colliderect(a, b) ==
    /\ a.l < b.l + b.w
    /\ a.l + a.w > b.l
    /\ a.t < b.t + b.h
    /\ a.t + a.h > b.t

\* Laser.rect: 14 x 3 centred on the laser
LaserRect(b) == Rect(ToInt(b.x - 7000), ToInt(b.y - 1500), 14, 3)

\* Shard.rect: 8 x 8 centred on the shard
ShardRect(s) == Rect(ToInt(s.x - 4000), ToInt(s.y - 4000), 8, 8)

\* Enemy.rect for the red kind: 24 x 24 centred on the enemy
RedRect(e) == Rect(ToInt(e.x - 12000), ToInt(e.y - 12000), 24, 24)

\* the player's hitbox in update: 24 x 20 centred on the player
PlayerRect(x, y) == Rect(ToInt(x - 12000), ToInt(y - 10000), 24, 20)

\* dx*dx + dy*dy <= r*r for dx, dy, r in thousandths (r at most 32 pixels);
\* a component longer than r decides the test before the squares are taken
WithinRadius(dx, dy, r) ==
    /\ Abs(dx) <= r
    /\ Abs(dy) <= r
    /\ dx * dx + dy * dy <= r * r

\* the sequences that take their i-th element from the i-th set of ss
RECURSIVE Choices(_)
Choices(ss) ==
    IF ss = <<>> THEN {<<>>}
    ELSE {<<x>> \o rest : x \in Head(ss), rest \in Choices(Tail(ss))}

\* ---- the world ---------------------------------------------------------
VARIABLES
    px, py,            \* player position
    energy,            \* 0 .. energy_max
    boost_active,
    shield_active,
    shoot_cd,          \* player's shoot cooldown
    score,
    stars,             \* sequence of Star
    bullets,           \* sequence of friendly Laser
    ebullets,          \* sequence of hostile Laser
    enemies,           \* sequence of Enemy
    shards,            \* sequence of Shard
    spawn_t,           \* enemy spawn timer
    nextId,            \* identity given to the next object created
    frame,             \* number of update calls made so far
    clock,             \* the dt of the calls made so far, added up
    shot_clock,        \* the clock at the last friendly laser fired, -1 if none so far
    spawn_clock,       \* the clock at the last enemy spawned, -1 if none so far
    screen,            \* what the last draw call painted
    pad,               \* the device state the host loop read for the last update
    jm,                \* the JoystickManager, with what its log function was given
    last               \* the last update call: its arguments and what its stages did

vars == <<px, py, energy, boost_active, shield_active, shoot_cd, score, stars,
          bullets, ebullets, enemies, shards, spawn_t, nextId, frame, clock, shot_clock,
          spawn_clock, screen, pad, jm, last>>

\* the surface before the first draw call
Blank == [stars |-> <<>>, ship |-> <<>>, ring |-> <<>>, lasers |-> <<>>, enemies |-> <<>>,
          shards |-> <<>>, bar |-> 0, score |-> 0]

\* dataclass Star
Star(x, y, layer) == [x |-> x, y |-> y, layer |-> layer]

\* dataclass Laser (w = 14 and h = 3 are in LaserRect; the colour follows the faction)
Laser(id, x, y, vx, vy, friendly) ==
    [id |-> id, x |-> x, y |-> y, vx |-> vx, vy |-> vy, friendly |-> friendly]

\* dataclass Shard
Shard(id, x, y, vx, vy, ttl, value) ==
    [id |-> id, x |-> x, y |-> y, vx |-> vx, vy |-> vy, ttl |-> ttl, value |-> value]

\* dataclass Enemy; r, shoot_cd, segs and phase are the entries of its data dict
Enemy(id, kind, x, y, vx, vy, hp, t, r, cd, segs, phase) ==
    [id |-> id, kind |-> kind, x |-> x, y |-> y, vx |-> vx, vy |-> vy, hp |-> hp,
     t |-> t, r |-> r, shoot_cd |-> cd, segs |-> segs, phase |-> phase]

\* ---- stage 1: energy drains -------------------------------------------
\* boost and shield are on only when asked for with energy left
\* a switch that ignores the energy
ActiveAlways(asked, e) == asked

Active(asked, e) == asked /\ e > 0

\* a drain that is not additive: the shield's alone when both are on
DrainOfOne(ba, sa, dt) ==
    IF sa THEN ShieldDrain * dt ELSE IF ba THEN BoostDrain * dt ELSE 0

DrainOf(ba, sa, dt) ==
    (IF ba THEN BoostDrain * dt ELSE 0) + (IF sa THEN ShieldDrain * dt ELSE 0)

Drained(e, ba, sa, dt) == Max(0, e - DrainOf(ba, sa, dt))

\* ---- stage 2: movement --------------------------------------------------
Speed(ba) == base_speed * (IF ba THEN boost_mul ELSE 1)

\* a clamp that forgets the limits
ClampOpen(lo, hi, v) == v

Clamp(lo, hi, v) == Max(lo, Min(hi, v))

\* max(20, min(dim - 20, p + move * speed * dt))
Moved(p, dim, move, ba, dt) ==
    Clamp(20000, dim - 20000, p + Quot(move * Speed(ba) * dt, 1000))

\* ---- stage 3: shooting --------------------------------------------------
CooledDown(cd, dt) == Max(0, cd - dt)

\* a trigger that ignores the cooldown
FiresOnRequest(shoot, cd, dt) == shoot

Fires(shoot, cd, dt) == shoot /\ CooledDown(cd, dt) <= 0

\* _fire_player: a friendly laser at the ship's tip, moving right
FirePlayer(id, x, y) == Laser(id, x + 18000, y, BulletSpeed, 0, TRUE)

\* ---- stage 4: stars ---------------------------------------------------
\* x after the parallax shift: s.x -= (35.0 * layer + par * layer) * dt
StarShift(s, mx, dt) ==
    s.x - Quot((35000 + Max(0, mx) * 60) * s.layer * dt, 10000)

\* a test with the sign of the margin lost
StarLeavesInView(s, mx, dt) == StarShift(s, mx, dt) < 2000

StarLeaves(s, mx, dt) == StarShift(s, mx, dt) < -2000

\* the random draws of a respawning star: (uniform(0, 60), uniform(0, h))
StarDraws == {[jitter |-> 0, y |-> 0], [jitter |-> 60000, y |-> H]}
NoDraw == [none |-> TRUE]

StarDrawSets(ss, mx, dt) ==
    [i \in 1..Len(ss) |-> IF StarLeaves(ss[i], mx, dt) THEN StarDraws ELSE {NoDraw}]

StarStep(s, mx, dt, d) ==
    IF StarLeaves(s, mx, dt)
    THEN Star(W + d.jitter, d.y, s.layer)
    ELSE Star(StarShift(s, mx, dt), s.y, s.layer)

\* ---- stage 5: lasers --------------------------------------------------
\* Laser.update
LaserUpdate(b, dt) == [b EXCEPT !.x = @ + Travel(b.vx, dt), !.y = @ + Travel(b.vy, dt)]

\* the hostile lasers' right margin used for the friendly ones
InFriendlyBoundsNarrow(b) ==
    /\ -40000 <= b.x /\ b.x <= W + 40000
    /\ -40000 <= b.y /\ b.y <= H + 40000

InFriendlyBounds(b) ==
    /\ -40000 <= b.x /\ b.x <= W + 80000
    /\ -40000 <= b.y /\ b.y <= H + 40000

InHostileBounds(b) ==
    /\ -80000 <= b.x /\ b.x <= W + 40000
    /\ -40000 <= b.y /\ b.y <= H + 40000

MapLasers(bs, dt) == [i \in 1..Len(bs) |-> LaserUpdate(bs[i], dt)]

FriendlyStep(bs, dt) == SelectSeq(MapLasers(bs, dt), InFriendlyBounds)

HostileStep(bs, dt) == SelectSeq(MapLasers(bs, dt), InHostileBounds)

\* ---- stage 6: enemy spawning ------------------------------------------
\* the random draws of _spawn_enemy and of the timer reset:
\* y in [40, h - 40], the kind, r in 12..28 and speed in [80, 160] (asteroid),
\* shoot_cd in [0.6, 1.5] (red), phase in [0, tau] (snake), timer in [0.6, 1.2]
SpawnSpots == {[y |-> 40000, timer |-> 600], [y |-> H - 40000, timer |-> 1200]}
KindDraws ==
    {[kind |-> "asteroid", r |-> 12, speed |-> 80000, cd |-> 0, phase |-> 0],
     [kind |-> "asteroid", r |-> 28, speed |-> 160000, cd |-> 0, phase |-> 0],
     [kind |-> "blob", r |-> 0, speed |-> 0, cd |-> 0, phase |-> 0],
     [kind |-> "red", r |-> 0, speed |-> 0, cd |-> 600, phase |-> 0],
     [kind |-> "red", r |-> 0, speed |-> 0, cd |-> 1500, phase |-> 0],
     [kind |-> "snake", r |-> 0, speed |-> 0, cd |-> 0, phase |-> 0],
     [kind |-> "snake", r |-> 0, speed |-> 0, cd |-> 0, phase |-> 6283]}
SpawnDraws == {[y |-> p.y, k |-> k, timer |-> p.timer] : p \in SpawnSpots, k \in KindDraws}

SpawnDue(t, dt) == t - dt <= 0

SpawnDrawSet(t, dt) == IF SpawnDue(t, dt) THEN SpawnDraws ELSE {NoDraw}

\* segs = [(w + 60 + i * 16, y) for i in range(8)]
NewSegs(y) == [i \in 1..SegCount |-> <<W + 60000 + (i - 1) * 16000, y>>]

\* _spawn_enemy
SpawnEnemy(id, d) ==
    CASE d.k.kind = "asteroid" ->
            Enemy(id, "asteroid", W + 40000, d.y, -d.k.speed, 0, 10 + d.k.r, 0, d.k.r, 0, <<>>, 0)
      [] d.k.kind = "blob" ->
            Enemy(id, "blob", W + 40000, d.y, -140000, 0, 30, 0, 0, 0, <<>>, 0)
      [] d.k.kind = "red" ->
            Enemy(id, "red", W + 50000, d.y, -120000, 0, 40, 0, 0, d.k.cd, <<>>, 0)
      [] d.k.kind = "snake" ->
            Enemy(id, "snake", W + 60000, d.y, -130000, 0, 60, 0, 0, 0, NewSegs(d.y), d.k.phase)

Spawned(es, t, dt, id, d) == IF SpawnDue(t, dt) THEN Append(es, SpawnEnemy(id, d)) ELSE es

\* a timer that carries what it overran into the next period
SpawnTimerCarried(t, dt, d) == IF SpawnDue(t, dt) THEN d.timer + (t - dt) ELSE t - dt

SpawnTimer(t, dt, d) == IF SpawnDue(t, dt) THEN d.timer ELSE t - dt

\* ---- stage 7: enemy kinematics ----------------------------------------
\* the random draws of one enemy in one frame: a blob's vertical kick
\* (0 when random() >= 0.1, else uniform(-60, 60)), a firing red's new
\* cooldown (uniform(1.0, 1.8))
BlobKicks == {0, -60000, 60000}
RedCooldowns == {1000, 1800}

RedFires(e, dt) == e.kind = "red" /\ Max(0, e.shoot_cd - dt) <= 0

EnemyDrawSet(e, dt) ==
    IF e.kind = "blob" THEN {[kick |-> k] : k \in BlobKicks}
    ELSE IF RedFires(e, dt) THEN {[cd |-> c] : c \in RedCooldowns}
    ELSE {NoDraw}

EnemyDrawSets(es, dt) == [i \in 1..Len(es) |-> EnemyDrawSet(es[i], dt)]

AsteroidStep(e, dt) == [e EXCEPT !.t = @ + dt, !.x = @ + Travel(e.vx, dt)]

\* a blob whose y is left where the impulse takes it
BlobStepFree(e, dt, d) ==
    [e EXCEPT !.t = @ + dt,
              !.x = @ + Travel(e.vx, dt),
              !.vy = Drag(e.vy + d.kick, dt),
              !.y = e.y + Travel(Drag(e.vy + d.kick, dt), dt)]

BlobStep(e, dt, d) ==
    LET vy == Drag(e.vy + d.kick, dt)
    IN [e EXCEPT !.t = @ + dt,
                 !.x = @ + Travel(e.vx, dt),
                 !.vy = vy,
                 !.y = Clamp(20000, H - 20000, e.y + Travel(vy, dt))]

RedStep(e, dt, d) ==
    [e EXCEPT !.t = @ + dt,
              !.x = @ + Travel(e.vx, dt),
              !.shoot_cd = IF RedFires(e, dt) THEN d.cd ELSE Max(0, e.shoot_cd - dt)]

\* math.hypot(dx, dy) or 1.0
Dist(dx, dy) == IF Hypot(dx, dy) = 0 THEN 1000 ELSE Hypot(dx, dy)

\* sp * d / L for sp = 280: a velocity component in thousandths per second
Aim(d, L) ==
    IF L < 70000 THEN 10 * Quot(100 * RedBulletSpeed * d, L)
    ELSE 10 * Quot(RedBulletSpeed * d, Quot(L, 100))

\* a laser aimed at where the player was before this update's movement
RedLaserAtOld(id, e, x, y) ==
    Laser(id, e.x - 16000, e.y, Aim(px - e.x, Dist(px - e.x, py - e.y)),
          Aim(py - e.y, Dist(px - e.x, py - e.y)), FALSE)

\* the laser a red enemy (already moved) fires at the player's position
RedLaser(id, e, x, y) ==
    LET dx == x - e.x
        dy == y - e.y
        L == Dist(dx, dy)
    IN Laser(id, e.x - 16000, e.y, Aim(dx, L), Aim(dy, L), FALSE)

\* a chase that takes the fallback distance as a step along x
ChaseUnitWay(prev, cur, dt) ==
    IF prev = cur THEN <<cur[1] + Min(100 * dt, 1000), cur[2]>>
    ELSE <<cur[1] + Quot(Quot((prev[1] - cur[1]) * 1000, Dist(prev[1] - cur[1], prev[2] - cur[2]))
                            * Min(100 * dt, Dist(prev[1] - cur[1], prev[2] - cur[2])), 1000),
           cur[2] + Quot(Quot((prev[2] - cur[2]) * 1000, Dist(prev[1] - cur[1], prev[2] - cur[2]))
                            * Min(100 * dt, Dist(prev[1] - cur[1], prev[2] - cur[2])), 1000)>>

\* a chase by 100 * dt whatever the distance
ChaseFull(prev, cur, dt) ==
    <<cur[1] + Quot(Quot((prev[1] - cur[1]) * 1000, Dist(prev[1] - cur[1], prev[2] - cur[2]))
                        * 100 * dt, 1000),
      cur[2] + Quot(Quot((prev[2] - cur[2]) * 1000, Dist(prev[1] - cur[1], prev[2] - cur[2]))
                        * 100 * dt, 1000)>>

\* one segment chasing the one before it: at most 100 * dt, never past it
Chase(prev, cur, dt) ==
    LET dx == prev[1] - cur[1]
        dy == prev[2] - cur[2]
        dist == Dist(dx, dy)
        step == Min(100 * dt, dist)
    IN <<cur[1] + Quot(Quot(dx * 1000, dist) * step, 1000),
         cur[2] + Quot(Quot(dy * 1000, dist) * step, 1000)>>

\* the loop over the segments after the head has been set: segment i
\* chases segment i - 1 as already moved in this frame
RECURSIVE ChaseFrom(_, _, _)
ChaseFrom(segs, i, dt) ==
    IF i > Len(segs) THEN segs
    ELSE CHOOSE out \in {ChaseFrom(moved, i + 1, dt) :
                            moved \in {[segs EXCEPT ![i] = Chase(segs[i - 1], segs[i], dt)]}} : TRUE

SnakeStep(e, dt) ==
    LET x == e.x + Travel(e.vx, dt)
        phase == e.phase + 2 * dt
        head_y == e.y + 40 * Sin(phase + Quot(x, 50))
    IN IF e.segs = <<>>
       THEN [e EXCEPT !.t = @ + dt, !.x = x, !.phase = phase]
       ELSE [e EXCEPT !.t = @ + dt, !.x = x, !.phase = phase, !.y = head_y,
                      !.segs = ChaseFrom([e.segs EXCEPT ![1] = <<x, head_y>>], 2, dt)]

EnemyStep(e, dt, d) ==
    CASE e.kind = "asteroid" -> AsteroidStep(e, dt)
      [] e.kind = "blob" -> BlobStep(e, dt, d)
      [] e.kind = "red" -> RedStep(e, dt, d)
      [] e.kind = "snake" -> SnakeStep(e, dt)

\* the loop over the enemies: each is moved, and a red one whose cooldown
\* has run out appends a hostile laser, aimed from where it now is
EnemiesMoved(es, ds, dt) == [k \in 1..Len(es) |-> EnemyStep(es[k], dt, ds[k])]

Firing(es, dt) == SelectSeq([k \in 1..Len(es) |-> k], LAMBDA k : RedFires(es[k], dt))

EnemiesFired(es, ds, dt, x, y, id) ==
    [j \in 1..Len(Firing(es, dt)) |->
        RedLaser(id + j - 1, EnemyStep(es[Firing(es, dt)[j]], dt, ds[Firing(es, dt)[j]]), x, y)]

\* ---- stage 8: enemy culling -------------------------------------------
\* a cull that has no left edge
OnFieldNoLeft(e) == -80000 < e.y /\ e.y < H + 80000

OnField(e) == e.x > -80000 /\ -80000 < e.y /\ e.y < H + 80000

\* a cull that leaves the enemies that went off the field as killed
CulledAsKilled(es) ==
    [k \in 1..Len(es) |-> IF OnField(es[k]) THEN es[k] ELSE [es[k] EXCEPT !.hp = 0]]

Culled(es) == SelectSeq(es, OnField)

\* ---- stage 9: friendly lasers against enemies -------------------------
\* the hit test of one laser against one enemy, by the enemy's kind
Hits(b, e) ==
    CASE e.kind = "asteroid" -> WithinRadius(b.x - e.x, b.y - e.y, (e.r + 4) * 1000)
      [] e.kind = "blob" -> WithinRadius(b.x - e.x, b.y - e.y, 18000)
      [] e.kind = "red" -> colliderect(LaserRect(b), RedRect(e))
      [] e.kind = "snake" -> WithinRadius(b.x - e.x, b.y - e.y, 16000)

\* a scan that keeps the last enemy the laser hits
RECURSIVE LastHit(_, _, _)
LastHit(b, es, i) ==
    IF i > Len(es) THEN 0
    ELSE IF LastHit(b, es, i + 1) # 0 THEN LastHit(b, es, i + 1)
    ELSE IF Hits(b, es[i]) THEN i
    ELSE 0

\* the inner loop: the index of the first enemy the laser hits, 0 if none
RECURSIVE FirstHit(_, _, _)
FirstHit(b, es, i) ==
    IF i > Len(es) THEN 0
    ELSE IF Hits(b, es[i]) THEN i
    ELSE FirstHit(b, es, i + 1)

\* the outer loop over the lasers: a laser that hits takes 1.0 from the
\* enemy and is dropped, the others are kept.
\* Result: the enemies, the lasers kept, and the hits (the laser, the enemy's
\* id and the hitpoints it had when the laser was tested against it).
RECURSIVE CollideFrom(_, _, _, _, _)
CollideFrom(bs, es, k, kept, hits) ==
    IF k > Len(bs) THEN [enemies |-> es, bullets |-> kept, hits |-> hits]
    ELSE CHOOSE out \in
           {IF i = 0
            THEN CollideFrom(bs, es, k + 1, Append(kept, bs[k]), hits)
            ELSE CollideFrom(bs, [es EXCEPT ![i].hp = @ - 10], k + 1, kept,
                             Append(hits, [laser |-> bs[k], enemy |-> es[i].id,
                                           hp |-> es[i].hp])) :
            i \in {FirstHit(bs[k], es, 1)}} : TRUE

Collide(bs, es) == CollideFrom(bs, es, 1, <<>>, <<>>)

\* ---- stage 10: dead enemies -> shards ---------------------------------
\* the random draws of _enemy_die: n in 2..5 and, for each shard, the angle
\* in [-0.6, 0.6], the speed in [80, 160], ttl in [3, 6] and value in [6, 12]
ShardCounts == 2..5
ShardA == [ang |-> -600, sp |-> 80000, ttl |-> 3000, value |-> 6000]
ShardB == [ang |-> 600, sp |-> 160000, ttl |-> 6000, value |-> 12000]
ShardC == [ang |-> 0, sp |-> 120000, ttl |-> 4500, value |-> 10000]
ShardPicks == {<<ShardA, ShardB, ShardC, ShardA, ShardB>>}
DeathDraws == {[n |-> n, p |-> p] : n \in ShardCounts, p \in ShardPicks}

Dead(e) == e.hp <= 0

DeathDrawSets(es) == [i \in 1..Len(es) |-> IF Dead(es[i]) THEN DeathDraws ELSE {NoDraw}]

\* one shard of _enemy_die, at the enemy's position
NewShard(id, e, q) ==
    Shard(id, e.x, e.y,
          -Quot(q.sp * Cos(q.ang), 1000),
          Quot(Quot(q.sp * Sin(q.ang), 1000), 2),
          q.ttl, q.value)

\* a death that leaves one shard
DieShardsOne(id, e, d) == <<NewShard(id, e, d.p[1])>>

\* _enemy_die: the n shards of one dead enemy
DieShards(id, e, d) == [j \in 1..d.n |-> NewShard(id + j - 1, e, d.p[j])]

\* a death that takes a point away
CreditLost(sc) == sc - 1

\* self.score += 1
Credit(sc) == sc + 1

\* the loop over the enemies: a dead one leaves shards and a point, the
\* others stay.  Result: the enemies alive, the shards with the new ones
\* appended, the score, and the dead enemies.
RECURSIVE ResolveFrom(_, _, _, _, _, _, _, _)
ResolveFrom(es, ds, k, id, alive, shs, sc, dead) ==
    IF k > Len(es) THEN [enemies |-> alive, shards |-> shs, score |-> sc, dead |-> dead]
    ELSE IF Dead(es[k])
         THEN ResolveFrom(es, ds, k + 1, id + ds[k].n, alive,
                          shs \o DieShards(id, es[k], ds[k]), Credit(sc), Append(dead, es[k]))
         ELSE ResolveFrom(es, ds, k + 1, id, Append(alive, es[k]), shs, sc, dead)

Resolve(es, ds, id, shs, sc) == ResolveFrom(es, ds, 1, id, <<>>, shs, sc, <<>>)

\* ---- stage 11: hostile lasers against the player ----------------------
Strikes(b, prect) == colliderect(LaserRect(b), prect)

\* a shield that absorbs nothing
StruckThroughShield(e, sa) == Max(0, e - ShotDamage)

\* damage that is not floored at 0
StruckUnfloored(e, sa) == IF sa THEN e ELSE e - ShotDamage

\* the energy left by one hostile laser that overlaps the player
Struck(e, sa) == IF sa THEN e ELSE Max(0, e - ShotDamage)

\* Result: the energy, the lasers kept and the ids of those that struck
RECURSIVE StrikeFrom(_, _, _, _, _, _, _)
StrikeFrom(bs, prect, sa, k, e, kept, struck) ==
    IF k > Len(bs) THEN [energy |-> e, ebullets |-> kept, struck |-> struck]
    ELSE IF Strikes(bs[k], prect)
         THEN StrikeFrom(bs, prect, sa, k + 1, Struck(e, sa), kept, struck \cup {bs[k].id})
         ELSE StrikeFrom(bs, prect, sa, k + 1, e, Append(kept, bs[k]), struck)

Strike(bs, prect, sa, e) == StrikeFrom(bs, prect, sa, 1, e, <<>>, {})

\* ---- stage 12: shards -------------------------------------------------
\* Shard.update
ShardUpdate(s, dt) ==
    [s EXCEPT !.x = @ + Travel(s.vx, dt),
              !.y = @ + Travel(s.vy, dt),
              !.vx = Drag(s.vx, dt),
              !.vy = Drag(s.vy, dt),
              !.ttl = @ - dt]

\* a shard with no time left that is kept
ExpiredLate(s) == s.ttl < 0

Expired(s) == s.ttl <= 0

Touches(s, prect) == colliderect(prect, ShardRect(s))

\* a pickup that adds nothing
GainedNothing(e, s) == e

\* a pickup that is not capped at energy_max
GainedUncapped(e, s) == e + s.value

\* the energy after picking up a shard
Gained(e, s) == Min(energy_max, e + s.value)

\* Result: the energy, the shards kept, those picked up and the ids of
\* those that ran out
RECURSIVE CollectFrom(_, _, _, _, _, _, _, _)
CollectFrom(shs, prect, dt, k, e, kept, picked, expired) ==
    IF k > Len(shs)
    THEN [energy |-> e, shards |-> kept, picked |-> picked, expired |-> expired]
    ELSE LET s == ShardUpdate(shs[k], dt)
         IN IF Expired(s)
            THEN CollectFrom(shs, prect, dt, k + 1, e, kept, picked, expired \cup {s.id})
            ELSE IF Touches(s, prect)
            THEN CollectFrom(shs, prect, dt, k + 1, Gained(e, s), kept, Append(picked, s), expired)
            ELSE CollectFrom(shs, prect, dt, k + 1, e, Append(kept, s), picked, expired)

Collect(shs, prect, dt, e) == CollectFrom(shs, prect, dt, 1, e, <<>>, <<>>, {})

\* ---- Game.update ------------------------------------------------------
\* the elapsed times the host loop passes: a frame at 60 per second and a
\* slow frame (clock.tick(60) / 1000.0 has no upper limit)
DTs == {16, 100}

\* the intents the host loop passes: (move_dx, move_dy, shoot, boost, shield)
Intent(mx, my, shoot, boost, shield) ==
    [mx |-> mx, my |-> my, shoot |-> shoot, boost |-> boost, shield |-> shield]

Intents ==
    {Intent(0, 0, FALSE, FALSE, FALSE),
     Intent(1000, 0, TRUE, FALSE, FALSE),
     Intent(-707, -707, FALSE, TRUE, FALSE),
     Intent(0, 1000, FALSE, FALSE, TRUE),
     Intent(707, 707, TRUE, TRUE, TRUE),
     Intent(-1000, 0, TRUE, FALSE, TRUE),
     Intent(0, -1000, FALSE, TRUE, TRUE)}

\* ---- the host loop's input mapping (main.py) ----------------------------
\* The device state read in a frame: the active joystick's two axes, in
\* hundredths, the four arrow keys, and the buttons and keys of the three
\* actions.
Device(ax, ay, left, right, up, down, shoot, boost, shield) ==
    [ax |-> ax, ay |-> ay, left |-> left, right |-> right, up |-> up, down |-> down,
     shoot |-> shoot, boost |-> boost, shield |-> shield]

AtRest == Device(0, 0, FALSE, FALSE, FALSE, FALSE, FALSE, FALSE, FALSE)

AXIS_LEFT_POSITIVE == TRUE
AXIS_UP_POSITIVE == TRUE

\* if abs(m) < 0.20: m = 0.0
Deadzone(m) == IF Abs(m) < 20 THEN 0 ELSE m

\* m / L for L = math.hypot of a vector of squared length s (m in hundredths,
\* s in ten-thousandths), rounded to the nearest thousandth as the float
\* division rounds to the nearest float: floor(2000 |m| / sqrt(s)) is the
\* integer root of floor(4000000 m^2 / s), taken in two steps to fit
Over(m, s) ==
    LET a == 2000 * m * m
        f == 2000 * (a \div s) + (2000 * (a % s)) \div s
        q == (ISqrt(f) + 1) \div 2
    IN IF m >= 0 THEN q ELSE -q

\* a joystick vector passed on as read, without normalisation
StickVectorRaw(ax, ay) ==
    <<10 * Deadzone(IF AXIS_LEFT_POSITIVE THEN -ax ELSE ax),
      10 * Deadzone(IF AXIS_UP_POSITIVE THEN -ay ELSE ay)>>

\* the joystick part: sign, deadzone, and normalisation if longer than 1
StickVector(ax, ay) ==
    LET mx == Deadzone(IF AXIS_LEFT_POSITIVE THEN -ax ELSE ax)
        my == Deadzone(IF AXIS_UP_POSITIVE THEN -ay ELSE ay)
        s == mx * mx + my * my
    IN IF s > 10000 THEN <<Over(mx, s), Over(my, s)>> ELSE <<10 * mx, 10 * my>>

\* the arrow keys, which replace the joystick's vector when any is effective
KeyVector(kx, ky) ==
    LET s == 10000 * (kx * kx + ky * ky)
    IN IF s > 0 THEN <<Over(100 * kx, s), Over(100 * ky, s)>> ELSE <<1000 * kx, 1000 * ky>>

\* the intent the host loop passes to update for a device state
HostIntent(d) ==
    LET kx == (IF d.right THEN 1 ELSE 0) - (IF d.left THEN 1 ELSE 0)
        ky == (IF d.down THEN 1 ELSE 0) - (IF d.up THEN 1 ELSE 0)
        m == IF kx # 0 \/ ky # 0 THEN KeyVector(kx, ky) ELSE StickVector(d.ax, d.ay)
    IN Intent(m[1], m[2], d.shoot, d.boost, d.shield)

\* the record kept of a call: its arguments; the world before it (was); the
\* energy after the drain; the ids of the laser shot and of the enemy spawned
\* (0 if none); the hostile lasers fired; the enemies culled; the hits of
\* friendly lasers; the enemies that died; the shards they left, as created;
\* the ids of the hostile lasers that struck the player; the energy after
\* them; the shards picked up; the ids of the shards that ran out
Call(dt, in, was, drained, shot, spawned, fired, culled, hits, dead, born, struck, hurt, picked, expired) ==
    [dt |-> dt, in |-> in, was |-> was, drained |-> drained, shot |-> shot,
     spawned |-> spawned, fired |-> fired, culled |-> culled, hits |-> hits,
     dead |-> dead, born |-> born, struck |-> struck, hurt |-> hurt, picked |-> picked,
     expired |-> expired]

\* the scalars of the world as a call finds them
Was == [px |-> px, py |-> py, energy |-> energy, shoot_cd |-> shoot_cd, score |-> score,
        spawn_t |-> spawn_t, nextId |-> nextId, clock |-> clock,
        shot_clock |-> shot_clock, spawn_clock |-> spawn_clock]

NoCall ==
    Call(0, Intent(0, 0, FALSE, FALSE, FALSE),
         [px |-> 0, py |-> 0, energy |-> 0, shoot_cd |-> 0, score |-> 0, spawn_t |-> 0,
          nextId |-> 0, clock |-> 0, shot_clock |-> -1, spawn_clock |-> -1],
         0, 0, 0, <<>>, <<>>, <<>>, <<>>, <<>>, {}, 0, <<>>, {})

\* The stages of Game.update, in the order of the code.  Each takes the
\* values computed so far (c) and gives the set of ways the stage can end:
\* one way, or one for each draw of the random source.

\* energy drains
Drains(c) ==
    {c @@ [e1 |-> Drained(energy, ba, sa, c.dt), ba |-> ba, sa |-> sa] :
        ba \in {Active(c.in.boost, energy)}, sa \in {Active(c.in.shield, energy)}}

\* movement, shooting, and the star draws
Moves(c) ==
    {c @@ [x |-> x, y |-> y, fire |-> fire,
           bs3 |-> IF fire THEN Append(bullets, FirePlayer(nextId, x, y)) ELSE bullets,
           id3 |-> IF fire THEN nextId + 1 ELSE nextId,
           sd |-> sd] :
        x \in {Moved(px, W, c.in.mx, c.ba, c.dt)},
        y \in {Moved(py, H, c.in.my, c.ba, c.dt)},
        fire \in {Fires(c.in.shoot, shoot_cd, c.dt)},
        sd \in Choices(StarDrawSets(stars, c.in.mx, c.dt))}

\* lasers move and are culled; the spawn timer and its draws
Spawns(c) ==
    {c @@ [bs5 |-> FriendlyStep(c.bs3, c.dt),
           ebs5 |-> HostileStep(ebullets, c.dt),
           due |-> due, wd |-> wd,
           es6 |-> Spawned(enemies, spawn_t, c.dt, c.id3, wd),
           id6 |-> IF due THEN c.id3 + 1 ELSE c.id3,
           prect |-> PlayerRect(c.x, c.y)] :
        due \in {SpawnDue(spawn_t, c.dt)},
        wd \in SpawnDrawSet(spawn_t, c.dt)}

\* the draws of the enemy loop
EnemyDraws(c) == {c @@ [ed |-> ed] : ed \in Choices(EnemyDrawSets(c.es6, c.dt))}

\* the enemy loop, then the cull
Advances(c) ==
    {c @@ [es7 |-> es7, es8 |-> Culled(es7),
           fired |-> EnemiesFired(c.es6, c.ed, c.dt, c.x, c.y, c.id6)] :
        es7 \in {EnemiesMoved(c.es6, c.ed, c.dt)}}

\* friendly lasers against the enemies
Collides(c) == {c @@ [s9 |-> Collide(c.bs5, c.es8)]}

\* dead enemies with their draws, and hostile lasers against the player
Resolves(c) ==
    {c @@ [dd |-> dd,
           s10 |-> Resolve(c.s9.enemies, dd, c.id6 + Len(c.fired), shards, score),
           s11 |-> Strike(c.ebs5 \o c.fired, c.prect, c.sa, c.e1)] :
        dd \in Choices(DeathDrawSets(c.s9.enemies))}

\* shards
Collects(c) ==
    {c @@ [s12 |-> Collect(c.s10.shards, c.prect, c.dt, c.s11.energy),
           born |-> SubSeq(c.s10.shards, Len(shards) + 1, Len(c.s10.shards))]}

\* the world the call leaves
Leaves(c) ==
    {[px |-> c.x, py |-> c.y, energy |-> c.s12.energy,
      boost_active |-> c.ba, shield_active |-> c.sa,
      shoot_cd |-> IF c.fire THEN ShotCooldown ELSE CooledDown(shoot_cd, c.dt),
      score |-> c.s10.score,
      stars |-> [i \in 1..Len(stars) |-> StarStep(stars[i], c.in.mx, c.dt, c.sd[i])],
      bullets |-> c.s9.bullets, ebullets |-> c.s11.ebullets,
      enemies |-> c.s10.enemies, shards |-> c.s12.shards,
      spawn_t |-> SpawnTimer(spawn_t, c.dt, c.wd),
      nextId |-> c.id6 + Len(c.fired) + Len(c.born),
      last |-> Call(c.dt, c.in, Was, c.e1,
                    IF c.fire THEN nextId ELSE 0,
                    IF c.due THEN c.id3 ELSE 0,
                    c.fired,
                    SelectSeq(c.es7, LAMBDA e : ~OnField(e)),
                    c.s9.hits, c.s10.dead, c.born,
                    c.s11.struck, c.s11.energy, c.s12.picked, c.s12.expired)]}

\* Game.update(dt, move_dx, move_dy, shoot, boost, shield): the ways the call
\* can run, one for each outcome of the draws of the random source, and the
\* worlds it can leave
Runs(dt, in) ==
    UNION {Collects(h) : h \in UNION {Resolves(g) : g \in UNION {Collides(f) : f \in
    UNION {Advances(e) : e \in UNION {EnemyDraws(d) : d \in UNION {Spawns(c) : c \in
    UNION {Moves(b) : b \in Drains([dt |-> dt, in |-> in])}}}}}}}

Outcomes(dt, in) == UNION {Leaves(c) : c \in Runs(dt, in)}

\* the values a run drew from the random source
DrawsOf(c) == <<c.sd, c.wd, c.ed, c.dd>>

\* a call that does not consult the random source: no star leaves the field
\* on the left, the spawn timer does not run out, there is no blob, no red
\* enemy fires and no enemy dies
Quiet(dt, in, rs) ==
    /\ \A i \in 1..Len(stars) :
         stars[i].x - Quot((35000 + Max(0, in.mx) * 60) * stars[i].layer * dt, 10000) >= -2000
    /\ spawn_t - dt > 0
    /\ \A k \in 1..Len(enemies) :
         /\ enemies[k].kind # "blob"
         /\ ~(enemies[k].kind = "red" /\ enemies[k].shoot_cd - dt <= 0)
    /\ \A c \in rs : c.s10.dead = <<>>

\* what the random source decides in a call with the runs rs and the worlds
\* os they leave: the number of worlds the call can leave, the number of
\* different draws, and whether the call is one that draws nothing
Tally(dt, in, rs, os) ==
    [ways |-> Cardinality(os),
     drawn |-> Cardinality({DrawsOf(c) : c \in rs}),
     quiet |-> Quiet(dt, in, rs)]

\* the call happens and leaves the world o
Becomes(o, t) ==
    /\ px' = o.px
    /\ py' = o.py
    /\ energy' = o.energy
    /\ boost_active' = o.boost_active
    /\ shield_active' = o.shield_active
    /\ shoot_cd' = o.shoot_cd
    /\ score' = o.score
    /\ stars' = o.stars
    /\ bullets' = o.bullets
    /\ ebullets' = o.ebullets
    /\ enemies' = o.enemies
    /\ shards' = o.shards
    /\ spawn_t' = o.spawn_t
    /\ nextId' = o.nextId
    /\ frame' = frame + 1
    /\ clock' = clock + o.last.dt
    /\ shot_clock' = (IF o.last.shot # 0 THEN clock + o.last.dt ELSE shot_clock)
    /\ spawn_clock' = (IF o.last.spawned # 0 THEN clock + o.last.dt ELSE spawn_clock)
    /\ screen' = screen
    /\ jm' = jm
    /\ last' = o.last @@ t

\* Game.update(dt, in) is called and runs one of the ways it can
Calls(dt, in) ==
    \E rs \in {Runs(dt, in)} : \E os \in {UNION {Leaves(c) : c \in rs}} :
        \E t \in {Tally(dt, in, rs, os)} : \E o \in os : Becomes(o, t)

\* a call with an intent given as such
Take(dt, in) == Calls(dt, in) /\ pad' = pad

\* One call of Game.update by the host loop.
Update ==
    /\ frame < MaxFrames
    /\ \E dt \in DTs, in \in Intents : Take(dt, in)

\* ---- JoystickManager (main.py) -------------------------------------------
\* A Joystick object: the instance id of its device and the call of the
\* manager that made it (the object's identity)
Joy(iid, made) == [iid |-> iid, made |-> made]

\* a device on a device index at the time of a scan: its instance id and
\* where opening it raises: nowhere, in Joystick(i), init() or
\* get_instance_id() ("open"), or in the getters of the [ADD] line ("name")
Plug(iid, fault) == [iid |-> iid, fault |-> fault]

\* a line given to the log function: its tag, the device index (-1 if it
\* names none) and the instance id (-1 if it names none)
Line(tag, idx, iid) == [tag |-> tag, idx |-> idx, iid |-> iid]

\* what a scan finds: get_count() raising or not, and the devices by index
Scan(fails, devs) == [fails |-> fails, devs |-> devs]

\* JoystickManager.__init__: no joystick, nothing logged; kind, scan, was and
\* mark tell the last call, its input, the joysticks and the log's length
\* before it
NoJoysticks ==
    [joysticks |-> <<>>, log |-> <<>>, calls |-> 0, kind |-> "none",
     scan |-> Scan(FALSE, <<>>), was |-> <<>>, mark |-> 0]

\* self.joysticks.keys()
Keys(js) == {js[k].iid : k \in 1..Len(js)}

Logged(m, line) == [m EXCEPT !.log = Append(@, line)]

\* JoystickManager.remove_device (an exception of joy.quit() is passed over)
RemoveDevice(m, iid) ==
    IF iid \in Keys(m.joysticks)
    THEN Logged([m EXCEPT !.joysticks = SelectSeq(@, LAMBDA j : j.iid # iid)],
                Line("REM", -1, iid))
    ELSE Logged(m, Line("WARN", -1, iid))

\* the body of rescan's loop for the device d on index i (the model's
\* sequences start at 1, the program's indices at 0)
ScanOne(m, d, i, call) ==
    IF d.fault = "open"
    THEN Logged(m, Line("ERR", i - 1, -1))
    ELSE IF d.iid \in Keys(m.joysticks)
    THEN [m EXCEPT !.seen = @ \cup {d.iid}]
    ELSE Logged([m EXCEPT !.seen = @ \cup {d.iid},
                          !.joysticks = Append(@, Joy(d.iid, call))],
                IF d.fault = "name" THEN Line("ERR", i - 1, -1) ELSE Line("ADD", i - 1, d.iid))

\* a loop that the first exception ends
RECURSIVE ScanUntilError(_, _, _, _)
ScanUntilError(m, devs, i, call) ==
    IF i > Len(devs) \/ devs[i].fault # "none" THEN m
    ELSE ScanUntilError(ScanOne(m, devs[i], i, call), devs, i + 1, call)

\* rescan's loop from index i on
RECURSIVE ScanFrom(_, _, _, _)
ScanFrom(m, devs, i, call) ==
    IF i > Len(devs) THEN m
    ELSE ScanFrom(ScanOne(m, devs[i], i, call), devs, i + 1, call)

\* the stale devices: for iid in list(self.joysticks.keys()), in the order
\* of the dictionary as the loop left it
RECURSIVE DropStale(_, _, _)
DropStale(m, js, k) ==
    IF k > Len(js) THEN m
    ELSE DropStale(IF js[k].iid \in m.seen THEN m ELSE RemoveDevice(m, js[k].iid), js, k + 1)

\* JoystickManager.rescan
Rescanned(m, scan, call) ==
    LET counted == IF scan.fails THEN Logged(m, Line("ERR", -1, -1)) ELSE m
        looped == ScanFrom(counted @@ [seen |-> {}], IF scan.fails THEN <<>> ELSE scan.devs,
                           1, call)
        kept == DropStale(looped, looped.joysticks, 1)
    IN IF kept.joysticks = <<>> THEN Logged(kept, Line("INFO", -1, -1)) ELSE kept

\* ---- Game.__init__ ----------------------------------------------------
\* the star field (the program draws 140 stars at random; they touch
\* nothing else, and the model carries two of them)
Stars0 == <<Star(1000, 300000, 6), Star(400000, 100000, 14)>>

World(x, y, e, cd, sc, bs, ebs, es, shs, t, id) ==
    [px |-> x, py |-> y, energy |-> e, shoot_cd |-> cd, score |-> sc, bullets |-> bs,
     ebullets |-> ebs, enemies |-> es, shards |-> shs, spawn_t |-> t, nextId |-> id]

\* the world after construction
NewGame ==
    World(Quot(W * 18, 100), Quot(H, 2), energy_start, 0, 0, <<>>, <<>>, <<>>, <<>>,
          spawn_start, 1)

\* ---- worlds in mid-game ------------------------------------------------
\* Worlds that update calls lead to, with the entities placed where the
\* stages of the next calls act on them.  Each is a world as an update leaves
\* it: no friendly laser on an enemy, no hostile laser and no shard on the
\* player, every laser inside its bounds, friendly lasers ahead of the
\* ship's tip by what their age gives them and apart by a cooldown's
\* travel, enemies on the field with hitpoints left, shards with time left.

\* two hostile lasers about to reach the player
HostileA == Laser(1, 165000, 300000, -280000, 0, FALSE)
HostileB == Laser(2, 160000, 312000, -224000, -168000, FALSE)
WorldFire(e) ==
    World(144000, 300000, e, 0, 0, <<>>, <<HostileA, HostileB>>, <<>>, <<>>, 1000, 3)

\* shards near the player: one that the player reaches by moving right, one
\* about to run out as it arrives, one far away
ShardOn == Shard(1, 172000, 300000, -60000, 0, 5000, 10000)
ShardLate == Shard(2, 160000, 300000, -40000, 8000, 100, 8000)
ShardFar == Shard(3, 400000, 300000, -66000, 22000, 3000, 6000)
WorldShards(e) ==
    World(144000, 300000, e, 0, 0, <<>>, <<>>, <<>>, <<ShardOn, ShardLate, ShardFar>>, 1000, 4)

\* a hostile laser and a shard reach the player in the same frame
ShardNear == Shard(2, 160000, 300000, -66000, 22000, 2900, 10000)
WorldMixed(e) ==
    World(144000, 300000, e, 0, 0, <<>>, <<HostileA>>, <<>>, <<ShardNear>>, 1000, 3)

\* enemies some way into the field (t is the time since they were spawned)
Rock(id, x, y, speed, hp, r) ==
    Enemy(id, "asteroid", x, y, -speed, 0, hp, Quot(W + 40000 - x, speed \div 1000), r, 0,
          <<>>, 0)
Blob(id, x, y, vy, hp) ==
    Enemy(id, "blob", x, y, -140000, vy, hp, Quot(W + 40000 - x, 140), 0, 0, <<>>, 0)
Red(id, x, y, hp, cd) ==
    Enemy(id, "red", x, y, -120000, 0, hp, Quot(W + 50000 - x, 120), 0, cd, <<>>, 0)
\* a snake as the update that spawned it (dt = 16 ms) leaves it
Snake(id, y, phase) ==
    SnakeStep(Enemy(id, "snake", W + 60000, y, -130000, 0, 60, 0, 0, 0, NewSegs(y), phase), 16)
Shot(id, x, y) == Laser(id, x, y, BulletSpeed, 0, TRUE)

\* friendly lasers about to reach two overlapping enemies
WorldDuel(hp, rockFirst) ==
    LET rock == Rock(1, 400000, 300000, 80000, hp, 12)
        blob == Blob(2, 404000, 302000, 0, 30)
    IN World(144000, 300000, 60000, 0, 2,
             <<Shot(3, 383000, 300000), Shot(4, 340000, 300000), Shot(5, 325000, 300000)>>,
             <<>>, IF rockFirst THEN <<rock, blob>> ELSE <<blob, rock>>, <<>>, 1000, 6)

\* an asteroid about to die next to the player, who has just fired
WorldClose ==
    World(144000, 331000, 60000, 180, 3, <<Shot(1, 172400, 331000)>>, <<>>,
          <<Rock(2, 210000, 331000, 160000, 8, 28)>>,
          <<Shard(3, 500000, 200000, -30000, 5000, 100, 7000)>>, 1000, 4)

\* lasers near the edges of their bounds, the player in mid-cooldown
WorldEdge ==
    World(144000, 300000, 60000, 80, 0,
          <<Shot(1, 875000, 300000), Shot(2, 850000, 300000)>>,
          <<Laser(3, -70000, 100000, -280000, 0, FALSE),
            Laser(4, 400000, -35000, 0, -280000, FALSE)>>,
          <<>>, <<>>, 1000, 5)

\* enemies near the edges of the field, and a snake
WorldDrift ==
    World(144000, 300000, 60000, 0, 1, <<>>, <<>>,
          <<Rock(1, -79000, 300000, 80000, 22, 12),
            Blob(2, 300000, 21000, -30000, 30),
            Snake(3, 300000, 0)>>,
          <<>>, 1000, 4)

\* red enemies about to fire, one of them on the player, one under fire
WorldReds ==
    World(144000, 300000, 60000, 0, 0, <<Shot(1, 580000, 100000)>>, <<>>,
          <<Red(2, 145920, 300000, 40, 10), Red(3, 600000, 100000, 10, 100)>>,
          <<>>, 1000, 4)

\* the spawn timer about to run out
WorldSpawn == World(20000, 580000, 120000, 0, 0, <<>>, <<>>, <<>>, <<>>, 100, 1)

MidGame ==
    {WorldFire(e) : e \in {0, 5000, 60000}}
        \cup {WorldShards(e) : e \in {50000, 115000}}
        \cup {WorldMixed(e) : e \in {5000, 115000}}
        \cup {WorldDuel(hp, f) : hp \in {2, 12}, f \in BOOLEAN}
        \cup {WorldClose, WorldEdge, WorldDrift, WorldReds, WorldSpawn}

Worlds == {NewGame} \cup MidGame

Load(w) ==
    /\ px = w.px
    /\ py = w.py
    /\ energy = w.energy
    /\ boost_active = FALSE
    /\ shield_active = FALSE
    /\ shoot_cd = w.shoot_cd
    /\ score = w.score
    /\ stars = Stars0
    /\ bullets = w.bullets
    /\ ebullets = w.ebullets
    /\ enemies = w.enemies
    /\ shards = w.shards
    /\ spawn_t = w.spawn_t
    /\ nextId = w.nextId
    /\ frame = 0
    /\ clock = 0
    /\ shot_clock = -1
    /\ spawn_clock = -1
    /\ screen = Blank
    /\ pad = AtRest
    /\ jm = NoJoysticks
    /\ last = NoCall @@ [ways |-> 0, drawn |-> 0, quiet |-> TRUE]

Init == \E w \in Worlds : Load(w)

Next == Update

Spec == Init /\ [][Next]_vars

\* ---- a game played from construction ------------------------------------
\* The host loop's calls from the world that Game.__init__ builds: a frame of
\* 90 ms or a stalled one of 500 ms, the player idle or holding the shoot key.
MaxPlay == 4

PlayDTs == {90, 500}

PlayIntents == {Intent(0, 0, FALSE, FALSE, FALSE), Intent(0, 0, TRUE, FALSE, FALSE)}

InitPlay == Load(NewGame)

Play ==
    /\ frame < MaxPlay
    /\ \E dt \in PlayDTs, in \in PlayIntents : Take(dt, in)

NextPlay == Play

SpecPlay == InitPlay /\ [][NextPlay]_vars

\* ---- Game.draw ----------------------------------------------------------
\* the shape draw paints for an enemy of each kind
EnemyShape(e) ==
    CASE e.kind = "asteroid" -> <<"disc", ToInt(e.x), ToInt(e.y), e.r>>
      [] e.kind = "blob" -> <<"disc", ToInt(e.x), ToInt(e.y), 16>>
      [] e.kind = "red" -> <<"box", Rect(ToInt(e.x - 12000), ToInt(e.y - 12000), 24, 24)>>
      [] e.kind = "snake" ->
            <<"chain", [i \in 1..Len(e.segs) |->
                          <<ToInt(e.segs[i][1]), ToInt(e.segs[i][2]), Max(6, 14 - (i - 1))>>]>>

\* the width of the filled part of the energy bar: int(bar_w * pct)
BarWidth == IF energy_max # 0 THEN Quot(180 * energy, energy_max) ELSE 0

\* what draw paints for the world as it is
Painted ==
    [stars |-> [i \in 1..Len(stars) |->
                   <<ToInt(stars[i].x), ToInt(stars[i].y), stars[i].layer > 10>>],
     ship |-> <<<<ToInt(px + 14000), ToInt(py)>>, <<ToInt(px - 10000), ToInt(py - 8000)>>,
                <<ToInt(px - 10000), ToInt(py + 8000)>>>>,
     ring |-> IF shield_active THEN <<ToInt(px), ToInt(py), 24>> ELSE <<>>,
     lasers |-> [i \in 1..Len(bullets) |-> LaserRect(bullets[i])]
                \o [i \in 1..Len(ebullets) |-> LaserRect(ebullets[i])],
     enemies |-> [i \in 1..Len(enemies) |-> EnemyShape(enemies[i])],
     shards |-> [i \in 1..Len(shards) |-> ShardRect(shards[i])],
     bar |-> BarWidth,
     score |-> score]

\* the world state of Game, which update owns
GameState == <<px, py, energy, boost_active, shield_active, shoot_cd, score, stars, bullets,
               ebullets, enemies, shards, spawn_t>>

\* a draw that takes the shards it has painted off the field
DrawTakingShards ==
    /\ screen' = Painted
    /\ shards' = <<>>
    /\ UNCHANGED <<px, py, energy, boost_active, shield_active, shoot_cd, score, stars,
                   bullets, ebullets, enemies, spawn_t, nextId, frame, clock, shot_clock,
                   spawn_clock, pad, jm, last>>

\* One call of Game.draw: it reads the world and writes the surface only.
Draw ==
    /\ screen' = Painted
    /\ UNCHANGED <<GameState, nextId, frame, clock, shot_clock, spawn_clock, pad, jm, last>>

\* The host loop from a world in mid-game, with draw calls at any point
\* between the updates.
MaxShow == 1

Step ==
    /\ frame < MaxShow
    /\ \E dt \in DTs, in \in Intents : Take(dt, in)

NextShow == Step \/ Draw

SpecShow == Init /\ [][NextShow]_vars

\* ---- zero distances -----------------------------------------------------
\* Worlds for the two places where update divides by a distance: a red
\* enemy that the next call of length dt brings onto the player (or off pixels
\* beside it) with its cooldown run out, and a snake whose n segments after
\* the head lie where that call will put the head.
Coiled(id, x, y, phase, dt, n) ==
    LET x1 == x + Travel(-130000, dt)
        hy == y + 40 * Sin(phase + 2 * dt + Quot(x1, 50))
    IN Enemy(id, "snake", x, y, -130000, 0, 60, 1000, 0, 0,
             [i \in 1..SegCount |->
                 IF i = 1 THEN <<x, y>>
                 ELSE IF i <= n + 1 THEN <<x1, hy>>
                 ELSE <<x + (i - 1) * 16000, y>>],
             phase)

WorldZero(dt, off, n) ==
    World(144000, 300000, 60000, 0, 0, <<>>, <<>>,
          <<Red(1, 144000 + 120 * dt + off * 1000, 300000, 40, dt), Coiled(2, 500000, 200000, 0, dt, n)>>,
          <<>>, 1000, 3)

ZeroWorlds == {WorldZero(dt, off, n) : dt \in DTs, off \in {0, 1}, n \in {0, 1, 3}}

MaxProbe == 1

InitProbe == \E w \in ZeroWorlds : Load(w)

Probe ==
    /\ frame < MaxProbe
    /\ \E dt \in DTs, in \in Intents : Take(dt, in)

NextProbe == Probe

SpecProbe == InitProbe /\ [][NextProbe]_vars

\* ---- the host loop with its device -------------------------------------
\* A game from construction in frames of 16 ms, the intent of each update
\* made from the device state: the joystick anywhere with no arrow key down,
\* or any arrow keys with the joystick at rest or in a corner.
MaxHost == 1

Axes == {-100, -77, -19, 0, 20, 67, 100}
Held == {<<FALSE, FALSE, FALSE>>, <<TRUE, FALSE, FALSE>>, <<TRUE, TRUE, FALSE>>,
         <<FALSE, FALSE, TRUE>>}
Devices ==
    {Device(ax, ay, FALSE, FALSE, FALSE, FALSE, b[1], b[2], b[3]) :
        ax \in Axes, ay \in Axes, b \in Held}
    \cup {Device(a, -a, l, r, u, d, b[1], b[2], b[3]) :
            a \in {0, 100}, l \in BOOLEAN, r \in BOOLEAN, u \in BOOLEAN, d \in BOOLEAN,
            b \in Held}

Host ==
    /\ frame < MaxHost
    /\ \E d \in Devices : Calls(16, HostIntent(d)) /\ pad' = d

NextHost == Host

SpecHost == InitPlay /\ [][NextHost]_vars

\* ---- the enemies' own moves ----------------------------------------------
\* The host loop from worlds in mid-game whose red enemies are about to fire
\* and whose rocks, blobs and snakes are near the edges of the field.
MaxFoes == 2

\* a blob about to cross the left edge along the bottom margin, a blob one hit
\* from death with a laser on its way, and a snake whose tail has folded:
\* segment 2 has caught up with segment 1, segment 4 lies ahead of segment 3
WorldLeft ==
    World(144000, 300000, 60000, 0, 0, <<Shot(1, 370000, 300000)>>, <<>>,
          <<Blob(2, -75000, H - 21000, 30000, 30),
            Blob(3, 400000, 300000, 0, 10),
            Enemy(4, "snake", 500000, 200000, -130000, 0, 60, 2000, 0, 0,
                  <<<<500000, 200000>>, <<520000, 200000>>, <<520000, 200000>>,
                    <<530000, 204000>>, <<525000, 206000>>, <<545000, 210000>>,
                    <<561000, 210000>>, <<577000, 210000>>>>, 1000)>>,
          <<>>, 1000, 5)

InitFoes == \E w \in {WorldReds, WorldDrift, WorldLeft} : Load(w)

\* the player idle, moving down behind the shield, or moving, boosting and
\* shooting at once
FoeIntents ==
    {Intent(0, 0, FALSE, FALSE, FALSE),
     Intent(0, 1000, FALSE, FALSE, TRUE),
     Intent(707, 707, TRUE, TRUE, TRUE)}

Foes ==
    /\ frame < MaxFoes
    /\ \E dt \in DTs, in \in FoeIntents : Take(dt, in)

SpecFoes == InitFoes /\ [][Foes]_vars

\* ---- the life of an entity ------------------------------------------------
\* The host loop calling update for ever with frames of four seconds: the
\* enemies that a call spawns have crossed the field two calls later, but for
\* an asteroid of the slowest kind (80 px/s), which needs a third.
MaxLive == 2

LiveDTs == {4000}

\* the constant that bounds dt from below
MinDT == CHOOSE d \in LiveDTs : \A o \in LiveDTs : d <= o

\* a world with entities on their way: a friendly laser just fired, a hostile
\* one flying level from the right, an asteroid of the slowest kind one call
\* after its spawn, a snake that its head's sine has carried above the
\* field, and a shard just dropped; blobs and reds come with the spawns
WorldLive ==
    World(144000, 300000, 60000, 164, 1, <<Shot(1, 170320, 300000)>>,
          <<Laser(2, 700000, 100000, -RedBulletSpeed * 1000, 0, FALSE)>>,
          <<Rock(3, 518720, 500000, 80000, 22, 12),
            Enemy(4, "snake", 700000, -50000, -130000, 0, 60, 1232, 0, 0,
                  [i \in 1..SegCount |-> <<700000 + (i - 1) * 14000, -50000 + (i - 1) * 6000>>],
                  5678)>>,
          <<Shard(5, 400000, 50000, -100000, 0, 5984, 10000)>>, 984, 6)

InitLive == Load(WorldLive)

\* the player moving up and left behind the shield while shooting
LiveIntents == {Intent(-707, -707, TRUE, FALSE, TRUE)}

Live ==
    /\ frame < MaxLive
    /\ \E dt \in LiveDTs, in \in LiveIntents : Take(dt, in)

\* What a call does to the count of calls.  Tick is enabled exactly when Live
\* is (update can always be called and always returns), and every Live step
\* is a Tick step.
Tick == frame < MaxLive /\ frame' = frame + 1

\* the host loop never stops calling update: fairness for the calls, taken
\* on the count that each of them raises
SpecLive == InitLive /\ [][Live]_vars /\ WF_frame(Tick)

\* ---- the host loop with its joysticks -------------------------------------
\* The calls the host loop makes to the JoystickManager: rescan (at the start,
\* on the R key and every ten seconds with no joystick) and remove_device (on
\* JOYDEVICEREMOVED).  MaxPads calls are followed.
MaxPads == 2

InstanceIds == 1..3

\* the devices attached at a scan at most: one instance id is always that of
\* a device gone
MaxPlugs == Cardinality(InstanceIds) - 1

Faults == {"none", "open", "name"}

\* the devices attached at a scan: each instance id on one index at most
Plugs == {Plug(a, f) : a \in InstanceIds, f \in Faults}

PlugLists ==
    {ds \in UNION {[1..n -> Plugs] : n \in 0..MaxPlugs} :
        \A i \in 1..Len(ds) : \A k \in 1..Len(ds) : ds[i].iid = ds[k].iid => i = k}

Scans == {Scan(FALSE, ds) : ds \in PlugLists} \cup {Scan(TRUE, <<>>)}

\* the call leaves the manager as m
Managed(m, kind, scan) ==
    /\ jm' = [joysticks |-> m.joysticks, log |-> m.log, calls |-> jm.calls + 1,
              kind |-> kind, scan |-> scan, was |-> jm.joysticks, mark |-> Len(jm.log)]
    /\ UNCHANGED <<GameState, nextId, frame, clock, shot_clock, spawn_clock, screen, pad,
                   last>>

\* jm.rescan()
Rescan ==
    /\ jm.calls < MaxPads
    /\ \E scan \in Scans : Managed(Rescanned(jm, scan, jm.calls + 1), "rescan", scan)

\* JOYDEVICEREMOVED: the event is logged and jm.remove_device(iid) called
\* (the buttons and axes that the loop remembers for the device, which only
\* its own display reads, are not carried)
Unplug ==
    /\ jm.calls < MaxPads
    /\ \E iid \in InstanceIds :
          Managed(RemoveDevice(Logged(jm, Line("EVT", -1, iid)), iid), "remove",
                  Scan(FALSE, <<>>))

NextPads == Rescan \/ Unplug

SpecPads == InitPlay /\ [][NextPads]_vars

\* ---- the world at a step boundary ---------------------------------------
\* What every update leaves behind, and every world above keeps: the
\* collisions are resolved, the collections are culled, and the friendly
\* lasers (520 px/s) lead the ship (440 px/s at most) by what their age
\* gives them, the oldest first.
StepBoundary ==
    /\ 20000 <= px /\ px <= W - 20000 /\ 20000 <= py /\ py <= H - 20000
    /\ 0 <= energy /\ energy <= energy_max
    /\ 0 <= shoot_cd /\ shoot_cd <= ShotCooldown
    /\ \A i \in 1..Len(bullets) :
         /\ bullets[i].friendly /\ InFriendlyBounds(bullets[i])
         /\ bullets[i].x - (px + 18000) >= 80 * (ShotCooldown - shoot_cd)
         /\ \A k \in 1..Len(enemies) : ~Hits(bullets[i], enemies[k])
         /\ \A j \in 1..Len(bullets) : i < j => bullets[i].x - bullets[j].x >= 14400
    /\ \A i \in 1..Len(ebullets) :
         /\ ~ebullets[i].friendly /\ InHostileBounds(ebullets[i])
         /\ ~Strikes(ebullets[i], PlayerRect(px, py))
    /\ \A i \in 1..Len(enemies) : OnField(enemies[i]) /\ enemies[i].hp > 0
    /\ \A i \in 1..Len(shards) :
         /\ shards[i].ttl > 0
         /\ ~Touches(shards[i], PlayerRect(px, py))

\* ---- properties ---------------------------------------------------------
Ids(seq) == {seq[i].id : i \in 1..Len(seq)}

RECURSIVE SumValues(_)
SumValues(seq) == IF seq = <<>> THEN 0 ELSE Head(seq).value + SumValues(Tail(seq))

\* a call has been made
Called == frame > 0

\* C1: the energy is never below 0 nor above energy_max, after construction
\* and after every update, whatever drain, damage and pickup a frame holds.
EnergyInRange == 0 <= energy /\ energy <= energy_max

\* a frame with damage that the floor at 0 cut short, then a pickup
EnergyInRangeWitness ==
    /\ Called
    /\ ~shield_active
    /\ last.struck # {}
    /\ last.drained < 12000
    /\ last.picked # <<>>
    /\ energy = SumValues(last.picked)

ScoreMonotone == [][score' >= score]_vars

\* an update in which enemies died and the score went up
ScoreMonotoneWitness == Called /\ last.dead # <<>> /\ score > 2

\* C4: with the shield up, hostile lasers that overlap the player take no
\* energy (the energy is the drained energy plus the pickups, capped) and are
\* gone from the hostile lasers after the update.
ShieldAbsorbs ==
    (Called /\ shield_active /\ last.struck # {}) =>
        /\ energy = Min(energy_max, last.drained + SumValues(last.picked))
        /\ Ids(ebullets) \cap last.struck = {}

\* the shield was up and a hostile laser overlapped the player
ShieldAbsorbsWitness == Called /\ shield_active /\ last.struck # {} /\ last.struck \subseteq {1, 2}

\* C5: with the shield down, each hostile laser that overlaps the player
\* takes exactly 12 energy, not below 0, and is gone after the update.
UnshieldedDamage ==
    (Called /\ ~shield_active /\ last.struck # {}) =>
        /\ energy = Min(energy_max,
                        Max(0, last.drained - 12000 * Cardinality(last.struck))
                            + SumValues(last.picked))
        /\ Ids(ebullets) \cap last.struck = {}

\* one hostile laser overlapped the unshielded player, who had more than 12 energy
UnshieldedDamageWitness ==
    /\ Called
    /\ ~shield_active
    /\ Cardinality(last.struck) = 1
    /\ last.picked = <<>>
    /\ energy = last.drained - 12000

\* C6 (as amended): an enemy whose hitpoints reach 0 or less in an update is
\* gone after it and gives exactly one point; 2 to 5 shards are created at its
\* last position, and the same update already moves each of them by its
\* velocity * dt and picks up those that then touch the player.
HitsOn(id) == Cardinality({i \in 1..Len(last'.hits) : last'.hits[i].enemy = id})

EnemyDeathStep ==
    LET dead == last'.dead
        born == last'.born
        At(j, i) == born[j].x = dead[i].x /\ born[j].y = dead[i].y
    IN /\ \A k \in 1..Len(enemies) :
            (HitsOn(enemies[k].id) > 0 /\ enemies[k].hp - 10 * HitsOn(enemies[k].id) <= 0)
                => enemies[k].id \in Ids(dead)
       /\ \A i \in 1..Len(dead) :
            /\ dead[i].hp <= 0
            /\ dead[i].id \notin Ids(enemies')
            /\ Cardinality({j \in 1..Len(born) : At(j, i)}) >= 2
       /\ score' = score + Len(dead)
       /\ 2 * Len(dead) <= Len(born) /\ Len(born) <= 5 * Len(dead)
       /\ \A j \in 1..Len(born) :
            /\ \E i \in 1..Len(dead) : At(j, i)
            /\ \/ \E k \in 1..Len(shards') : shards'[k] = ShardUpdate(born[j], last'.dt)
               \/ \E k \in 1..Len(last'.picked) : last'.picked[k] = ShardUpdate(born[j], last'.dt)

EnemyDeath == [][EnemyDeathStep]_vars

\* an enemy died next to the player and shards it left were picked up in
\* the same update
EnemyDeathWitness ==
    /\ Called
    /\ Len(last.dead) = 1
    /\ score = 4
    /\ Len(last.born) >= 2
    /\ Ids(last.born) \cap Ids(last.picked) # {}

\* C6 as claimed: after the update the enemy is gone, 2 to 5 new shards are in
\* the shard collection at its last position, and the score is up by one.
EnemyDeathAsClaimed ==
    [][\A i \in 1..Len(last'.dead) :
         /\ last'.dead[i].id \notin Ids(enemies')
         /\ Cardinality({k \in 1..Len(shards') :
                 /\ shards'[k].id \in Ids(last'.born)
                 /\ shards'[k].x = last'.dead[i].x
                 /\ shards'[k].y = last'.dead[i].y}) \in 2..5
         /\ score' = score + Len(last'.dead)]_vars

\* C7: a friendly laser damages at most one enemy per update, by exactly 1:
\* the first in collection order among those it overlaps; the others keep
\* their hitpoints, and the laser is gone after the update.
SingleHitStep ==
    LET hits == last'.hits
        targets == {enemies'[k] : k \in 1..Len(enemies')}
                       \cup {last'.dead[k] : k \in 1..Len(last'.dead)}
        Rank(id) == IF \E k \in 1..Len(enemies) : enemies[k].id = id
                    THEN CHOOSE k \in 1..Len(enemies) : enemies[k].id = id
                    ELSE Len(enemies) + 1
    IN /\ \A i, j \in 1..Len(hits) : hits[i].laser.id = hits[j].laser.id => i = j
       /\ \A i \in 1..Len(hits) :
            /\ hits[i].laser.id \notin Ids(bullets')
            /\ \E t \in targets : t.id = hits[i].enemy /\ Hits(hits[i].laser, t)
            /\ \A t \in targets : Hits(hits[i].laser, t) => Rank(t.id) >= Rank(hits[i].enemy)
       /\ \A k \in 1..Len(enemies) : \A t \in targets :
            t.id = enemies[k].id => t.hp = enemies[k].hp - 10 * HitsOn(t.id)

SingleHit == [][SingleHitStep]_vars

\* a friendly laser overlapped two enemies and damaged one of them
SingleHitWitness ==
    /\ Called
    /\ \E i \in 1..Len(last.hits) : \E k \in 1..Len(enemies) :
         /\ enemies[k].id # last.hits[i].enemy
         /\ Hits(last.hits[i].laser, enemies[k])
         /\ enemies[k].hp = 30

\* C8: a shard with time left that overlaps the player is picked up: its
\* value is added to the energy, capped at energy_max, and it is gone from
\* the shards after the update.
ShardPickup ==
    Called =>
        /\ energy = Min(energy_max, last.hurt + SumValues(last.picked))
        /\ Ids(last.picked) \cap Ids(shards) = {}
        /\ \A k \in 1..Len(last.picked) :
             last.picked[k].ttl > 0 /\ Touches(last.picked[k], PlayerRect(px, py))
        /\ \A k \in 1..Len(shards) : ~Touches(shards[k], PlayerRect(px, py))

\* the shard of value 10 at the centre of the hitbox, energy 50: energy 60
ShardPickupWitness ==
    /\ Called
    /\ last.hurt = 50000
    /\ Len(last.picked) = 1
    /\ last.picked[1].value = 10000
    /\ last.picked[1].x = px /\ last.picked[1].y = py
    /\ energy = 60000

\* the friendly lasers' bounds, as the claim gives them
InClaimedBounds(x, y) ==
    /\ -40000 <= x /\ x <= W + 80000
    /\ -40000 <= y /\ y <= H + 40000

Hitters == {last'.hits[i].laser.id : i \in 1..Len(last'.hits)}

\* What update does with a friendly laser: it moves it by its velocity * dt
\* and then culls it, so the laser is in the collection after the update
\* exactly when its new position is inside [-40, w + 80] x [-40, h + 40] and
\* it hit no enemy; one at x = w + 50 stays when 520 * dt <= 30.  Every laser
\* left after an update lies inside the bounds.
FriendlyCullingStep ==
    /\ \A k \in 1..Len(bullets) :
         bullets[k].id \in Ids(bullets') <=>
            /\ InClaimedBounds(bullets[k].x + Travel(bullets[k].vx, last'.dt),
                               bullets[k].y + Travel(bullets[k].vy, last'.dt))
            /\ bullets[k].id \notin Hitters
    /\ \A k \in 1..Len(bullets) :
         (bullets[k].x = W + 50000 /\ bullets[k].id \notin Hitters /\ 520 * last'.dt <= 30000
            /\ -40000 <= bullets[k].y /\ bullets[k].y <= H + 40000)
                => bullets[k].id \in Ids(bullets')
    /\ \A k \in 1..Len(bullets') : InClaimedBounds(bullets'[k].x, bullets'[k].y)

FriendlyCulling == [][FriendlyCullingStep]_vars

\* the laser that was at w + 50 is still there, past w + 50, and the one
\* that was at w + 75 is gone
FriendlyCullingWitness ==
    /\ frame = 1
    /\ \E k \in 1..Len(bullets) : bullets[k].id = 2 /\ bullets[k].x > W + 50000
    /\ 1 \notin Ids(bullets)
    /\ last.hits = <<>>
    /\ last.in.shoot

\* C9: a friendly laser at x = w + 100 is gone after the update, one at
\* x = w + 50 inside the vertical bounds that hits no enemy is still there,
\* and every laser left lies inside the bounds.  The host loop passes the
\* measured frame time with no upper cap, so dt = 0.1 s is an input.
FriendlyCullingAsClaimed ==
    [][/\ \A k \in 1..Len(bullets) :
            /\ bullets[k].x = W + 100000 => bullets[k].id \notin Ids(bullets')
            /\ (bullets[k].x = W + 50000 /\ bullets[k].id \notin Hitters
                    /\ -40000 <= bullets[k].y /\ bullets[k].y <= H + 40000)
                  => bullets[k].id \in Ids(bullets')
       /\ \A k \in 1..Len(bullets') : InClaimedBounds(bullets'[k].x, bullets'[k].y)]_vars

\* C10: at every step boundary every enemy has hitpoints left and every
\* shard has time left.
NoDeadEntities ==
    /\ \A k \in 1..Len(enemies) : enemies[k].hp > 0
    /\ \A k \in 1..Len(shards) : shards[k].ttl > 0

\* an update in which an enemy died and a shard ran out, with shards left
NoDeadEntitiesWitness ==
    Called /\ last.dead # <<>> /\ last.expired # {} /\ shards # <<>>

\* C11: an enemy removed because it left the field gives no point and leaves
\* no shard: after every update the score is up by exactly the number of
\* enemies removed with hitpoints <= 0, every shard created lies where one of
\* those died, and no culled enemy is among them.
CullNoCredit ==
    Called =>
        /\ score = last.was.score + Len(last.dead)
        /\ \A i \in 1..Len(last.dead) : last.dead[i].hp <= 0
        /\ \A i \in 1..Len(last.culled) :
             /\ ~OnField(last.culled[i])
             /\ last.culled[i].hp > 0
             /\ last.culled[i].id \notin Ids(last.dead) \cup Ids(enemies)
        /\ last.dead = <<>> => last.born = <<>>
        /\ \A j \in 1..Len(last.born) :
             \E i \in 1..Len(last.dead) :
                last.born[j].x = last.dead[i].x /\ last.born[j].y = last.dead[i].y

\* an update culled an enemy that had left the field: no point, no shard
CullNoCreditWitness ==
    /\ Called
    /\ last.culled # <<>>
    /\ score = last.was.score
    /\ last.born = <<>>

\* C12: in every update boost (shield) is active exactly when it is asked for
\* and the energy is above 0 as the update starts; an update that starts with
\* energy 0 moves the player at the base speed and absorbs no hostile laser.
ActiveIffAsked ==
    Called =>
        /\ boost_active = (last.in.boost /\ last.was.energy > 0)
        /\ shield_active = (last.in.shield /\ last.was.energy > 0)
        /\ last.was.energy = 0 =>
             /\ px = Clamp(20000, W - 20000,
                           last.was.px + Quot(last.in.mx * base_speed * last.dt, 1000))
             /\ py = Clamp(20000, H - 20000,
                           last.was.py + Quot(last.in.my * base_speed * last.dt, 1000))
             /\ last.drained = 0
             /\ ~shield_active
             /\ \A k \in 1..Len(ebullets) : ebullets[k].id \notin last.struck

\* boost and shield were asked for with no energy left: the player moved at
\* the base speed and the hostile lasers struck
ActiveIffAskedWitness ==
    /\ Called
    /\ last.was.energy = 0
    /\ last.in.boost /\ last.in.shield
    /\ ~boost_active /\ ~shield_active
    /\ last.struck # {}
    /\ py = last.was.py - 3520

\* C13: the resource stage of an update with elapsed time dt leaves
\* max(0, energy - (20 * [boost active] + 28 * [shield active]) * dt): 20 a
\* second for boost alone, 28 for the shield alone, 48 for both, nothing for
\* neither, never below 0.
DrainFormula ==
    Called =>
        LET e == last.was.energy
            dt == last.dt
        IN /\ boost_active /\ ~shield_active => last.drained = Max(0, e - 20 * dt)
           /\ ~boost_active /\ shield_active => last.drained = Max(0, e - 28 * dt)
           /\ boost_active /\ shield_active => last.drained = Max(0, e - 48 * dt)
           /\ ~boost_active /\ ~shield_active => last.drained = e
           /\ last.drained >= 0

\* boost and shield together drained more than was left: the energy stopped at 0
DrainFormulaWitness ==
    /\ Called
    /\ boost_active /\ shield_active
    /\ last.was.energy > 0
    /\ last.was.energy < 48 * last.dt
    /\ last.drained = 0

\* C14: an update fires a friendly laser exactly when shoot is asked for and
\* the cooldown, less dt and floored at 0, is 0; it fires at most one and sets
\* the cooldown to 0.18 s, so two consecutive shots are at least 0.18 s of
\* accumulated dt apart.
ShootCooldown ==
    Called =>
        /\ (last.shot # 0) <=> (last.in.shoot /\ Max(0, last.was.shoot_cd - last.dt) = 0)
        /\ last.shot # 0 => shoot_cd = 180
        /\ last.shot = 0 => shoot_cd = Max(0, last.was.shoot_cd - last.dt)
        /\ \A k \in 1..Len(bullets) :
             bullets[k].id >= last.was.nextId => bullets[k].id = last.shot
        /\ (last.shot # 0 /\ last.was.shot_clock >= 0) => clock - last.was.shot_clock >= 180

\* a second shot exactly 0.18 s after the one before it, its laser in flight
ShootCooldownWitness ==
    /\ Called
    /\ last.shot # 0
    /\ last.was.shot_clock >= 0
    /\ clock - last.was.shot_clock = 180
    /\ \E k \in 1..Len(bullets) : bullets[k].id = last.shot

\* C15: an update adds exactly one enemy when the spawn timer, less dt, is
\* <= 0, and none otherwise; the timer starts at 1.0 s and is set to a value
\* in [0.6, 1.2] s on each spawn, so there is no enemy before 1.0 s of
\* accumulated dt, and two consecutive spawns are at least 0.6 s apart.
SpawnTimerRule ==
    LET new == {id \in Ids(enemies) \cup Ids(last.dead) \cup Ids(last.culled) :
                    id >= last.was.nextId}
    IN /\ frame = 0 => (spawn_t = 1000 /\ enemies = <<>>)
       /\ clock < 1000 => (enemies = <<>> /\ spawn_clock = -1)
       /\ Called =>
            /\ (last.spawned # 0) <=> (last.was.spawn_t - last.dt <= 0)
            /\ last.spawned # 0 => (new = {last.spawned} /\ 600 <= spawn_t /\ spawn_t <= 1200)
            /\ last.spawned = 0 => (new = {} /\ spawn_t = last.was.spawn_t - last.dt)
            /\ (last.spawned # 0 /\ last.was.spawn_clock >= 0) =>
                    clock - last.was.spawn_clock >= 600

\* the second enemy of a game, spawned by a timer that a stalled frame overran
SpawnTimerRuleWitness ==
    /\ Called
    /\ last.spawned # 0
    /\ last.was.spawn_clock = 1000
    /\ last.was.spawn_t - last.dt < 0
    /\ Len(enemies) = 2

DrawKeepsWorld == [][screen' # screen => UNCHANGED GameState]_vars

\* a draw after an update, of a world with every kind of thing on the field
DrawKeepsWorldWitness ==
    /\ Called
    /\ screen = Painted
    /\ bullets # <<>>
    /\ ebullets # <<>>
    /\ enemies # <<>>
    /\ shards # <<>>

\* C20: a friendly laser is consumed, and takes a hitpoint, only against an
\* enemy that has hitpoints left at the moment of the test: an enemy that an
\* earlier laser of the same update brought to 0 or below absorbs no further
\* laser.
OnlyLiveEnemiesHit ==
    Called => \A k \in 1..Len(last.hits) : last.hits[k].hp > 0

\* C18: a zero distance does not stop the update: a red enemy that fires
\* from exactly the player's position fires a laser of velocity (0, 0), and a
\* snake segment that lies exactly where the segment before it has moved to
\* stays where it is.
ZeroDistance ==
    [][/\ \A f \in 1..Len(last'.fired) :
            (last'.fired[f].x + 16000 = px' /\ last'.fired[f].y = py')
                => (last'.fired[f].vx = 0 /\ last'.fired[f].vy = 0)
       /\ \A j \in 1..Len(enemies), k \in 1..Len(enemies') :
            (enemies[j].id = enemies'[k].id /\ enemies[j].kind = "snake")
                => \A i \in 2..Len(enemies[j].segs) :
                       enemies[j].segs[i] = enemies'[k].segs[i - 1]
                           => enemies'[k].segs[i] = enemies[j].segs[i]]_vars

\* an update of 16 ms in which the red enemy fired from the player's position
\* and three segments of the snake lay where the head went
ZeroDistanceWitness ==
    /\ Called
    /\ last.dt = 16
    /\ \E f \in 1..Len(last.fired) :
          /\ last.fired[f].x + 16000 = px
          /\ last.fired[f].y = py
          /\ last.fired[f].vx = 0
          /\ last.fired[f].vy = 0
    /\ \E k \in 1..Len(enemies) :
          /\ enemies[k].kind = "snake"
          /\ enemies[k].segs[4] = enemies[k].segs[1]
          /\ enemies[k].segs[5] # enemies[k].segs[4]

RedsDue(es, dt) == {k \in 1..Len(es) : es[k].kind = "red" /\ Max(0, es[k].shoot_cd - dt) = 0}

\* the velocity (vx, vy) points along (dx, dy), to within 0.01 rad
Along(vx, vy, dx, dy) ==
    LET cross == Quot(vx, 1000) * dy - Quot(vy, 1000) * dx
    IN /\ Abs(cross) <= 2 * (Abs(dx) + Abs(dy))
       /\ Quot(vx, 1000) * dx + Quot(vy, 1000) * dy > 0

\* the velocity has magnitude 280, to within 1 px/s
Speed280(vx, vy) ==
    LET s == Quot(vx, 100) * Quot(vx, 100) + Quot(vy, 100) * Quot(vy, 100)
    IN 2790 * 2790 <= s /\ s <= 2810 * 2810

\* What an update does with the red enemies' lasers.  With always280 the
\* laser's speed is 280 whatever the distance; without, a laser fired from
\* exactly the player's position has velocity (0, 0).
RedFireStep(always280) ==
    frame' # frame =>
        /\ Len(last'.fired) = Cardinality(RedsDue(enemies, last'.dt))
        /\ \A k \in 1..Len(enemies) :
              enemies[k].kind = "red" =>
                LET e == enemies[k]
                    ex == e.x + Travel(e.vx, last'.dt)
                    shots == {f \in 1..Len(last'.fired) :
                                 /\ last'.fired[f].x = ex - 16000
                                 /\ last'.fired[f].y = e.y}
                IN /\ Cardinality(shots) = (IF k \in RedsDue(enemies, last'.dt) THEN 1 ELSE 0)
                   /\ \A f \in shots :
                         IF px' = ex /\ py' = e.y /\ ~always280
                         THEN last'.fired[f].vx = 0 /\ last'.fired[f].vy = 0
                         ELSE /\ Speed280(last'.fired[f].vx, last'.fired[f].vy)
                              /\ Along(last'.fired[f].vx, last'.fired[f].vy, px' - ex, py' - e.y)
                   /\ \A j \in 1..Len(enemies') :
                         enemies'[j].id = e.id =>
                            IF k \in RedsDue(enemies, last'.dt)
                            THEN 1000 <= enemies'[j].shoot_cd /\ enemies'[j].shoot_cd <= 1800
                            ELSE enemies'[j].shoot_cd = e.shoot_cd - last'.dt
        /\ \A f \in 1..Len(last'.fired) :
              last'.fired[f].id \in Ids(ebullets') \cup last'.struck
        /\ \A i \in 1..Len(ebullets), j \in 1..Len(ebullets') :
              ebullets[i].id = ebullets'[j].id =>
                 /\ ebullets'[j].vx = ebullets[i].vx
                 /\ ebullets'[j].vy = ebullets[i].vy

\* C21 (as amended): a red enemy fires exactly in the update in which its
\* cooldown, less dt and floored at 0, reaches 0; the laser's velocity points
\* from the enemy to the player's position as this update's movement left it,
\* with magnitude 280, or is (0, 0) if the enemy is exactly at that position;
\* the velocity never changes in later updates; the cooldown is set to a value
\* in [1.0, 1.8] s.
RedFire == [][RedFireStep(FALSE)]_vars

\* a laser that a red enemy fired at a moving player in the update before
\* the last, still in flight with the velocity it was fired with
RedFireWitness ==
    /\ frame = 2
    /\ \E j \in 1..Len(ebullets) :
          /\ ebullets[j].id >= 4
          /\ ebullets[j].vy > 0
          /\ Speed280(ebullets[j].vx, ebullets[j].vy)
          /\ ebullets[j].y > 100000
    /\ \E k \in 1..Len(enemies) : enemies[k].kind = "red" /\ enemies[k].shoot_cd >= 800

\* C21 as claimed: the laser's velocity has magnitude 280 in every case.
RedFireAlways280 == [][RedFireStep(TRUE)]_vars

\* C22: after every update every blob's y is in [20, h - 20], whatever
\* impulses it got, so the vertical margins of the cull never remove a blob:
\* a blob that leaves the enemies either died (hitpoints <= 0) or was culled
\* at x <= -80 with its y in that range.
BlobInRange ==
    /\ [](\A k \in 1..Len(enemies) :
             enemies[k].kind = "blob" =>
                 (20000 <= enemies[k].y /\ enemies[k].y <= H - 20000))
    /\ [][frame' # frame =>
            \A k \in 1..Len(enemies) :
               (enemies[k].kind = "blob" /\ enemies[k].id \notin Ids(enemies')) =>
                  \/ \E i \in 1..Len(last'.dead) :
                        last'.dead[i].id = enemies[k].id /\ last'.dead[i].hp <= 0
                  \/ \E i \in 1..Len(last'.culled) :
                        /\ last'.culled[i].id = enemies[k].id
                        /\ last'.culled[i].x <= -80000
                        /\ 20000 <= last'.culled[i].y
                        /\ last'.culled[i].y <= H - 20000]_vars

\* a blob that an impulse pushed against the bottom margin in the update
\* that took it across the left edge, where it was culled
BlobInRangeWitness ==
    /\ Called
    /\ \E i \in 1..Len(last.culled) :
          /\ last.culled[i].kind = "blob"
          /\ last.culled[i].y = H - 20000
          /\ last.culled[i].vy > 50000
          /\ last.culled[i].x <= -80000

\* the move of one segment from old to new, the segment before it now at
\* prev: the segment goes straight toward prev (to within 0.01 rad), does not
\* pass it, and ends min(100 * dt, distance) nearer to it (to within 0.3 px)
ChasedRight(prev, old, new, dt) ==
    LET d0 == Hypot(prev[1] - old[1], prev[2] - old[2])
        d1 == Hypot(prev[1] - new[1], prev[2] - new[2])
        step == Min(100 * dt, d0)
        mx == Quot(new[1] - old[1], 10)
        my == Quot(new[2] - old[2], 10)
        tx == Quot(prev[1] - old[1], 10)
        ty == Quot(prev[2] - old[2], 10)
        rx == Quot(prev[1] - new[1], 10)
        ry == Quot(prev[2] - new[2], 10)
    IN /\ Abs(d1 - (d0 - step)) <= 300
       /\ d1 <= d0
       /\ Abs(mx * ty - my * tx) <= 2 * (Abs(tx) + Abs(ty)) + 2 * (Abs(mx) + Abs(my))
       /\ mx * tx + my * ty >= 0
       /\ rx * tx + ry * ty >= 0

\* C23: in every update a snake keeps its 8 segments, the first is put at
\* the head, and each later one moves straight toward the one before it as
\* already moved, by min(100 * dt, distance): never past it, and nearer to it
\* by the step taken.
SnakeChain ==
    [][frame' # frame =>
         \A j \in 1..Len(enemies), k \in 1..Len(enemies') :
            (enemies[j].id = enemies'[k].id /\ enemies[j].kind = "snake") =>
               /\ Len(enemies[j].segs) = SegCount
               /\ Len(enemies'[k].segs) = SegCount
               /\ enemies'[k].segs[1] = <<enemies'[k].x, enemies'[k].y>>
               /\ enemies'[k].x = enemies[j].x + Travel(enemies[j].vx, last'.dt)
               /\ \A i \in 2..SegCount :
                     ChasedRight(enemies'[k].segs[i - 1], enemies[j].segs[i],
                                 enemies'[k].segs[i], last'.dt)]_vars

\* two updates of 100 ms of the snake with the folded tail: segment 5 has
\* reached segment 4 (its distance was under the step) and the last segment
\* has come 20 px nearer to where it started
SnakeChainWitness ==
    /\ frame = 2
    /\ last.dt = 100
    /\ \E k \in 1..Len(enemies) :
          /\ enemies[k].id = 4
          /\ Abs(enemies[k].segs[5][1] - enemies[k].segs[4][1]) < 100
          /\ Abs(enemies[k].segs[5][2] - enemies[k].segs[4][2]) < 100
          /\ Abs(enemies[k].segs[3][1] - enemies[k].segs[2][1]) < 100
          /\ enemies[k].segs[8][1] < 577000 - 15000
          /\ Hypot(enemies[k].segs[2][1] - enemies[k].segs[1][1], enemies[k].segs[2][2] - enemies[k].segs[1][2]) > 20000

\* the entities of the four collections, by id
Present(i) == i \in Ids(bullets) \cup Ids(ebullets) \cup Ids(enemies) \cup Ids(shards)

\* the ids that a game of MaxLive calls can give out: five at the start, and
\* in a call at most a shot, a spawn and two lasers of red enemies
LiveIds == 1..(5 + 4 * MaxLive)

\* the number of calls of at least MinDT after which something that has d to
\* go at the given speed has gone further than d
CallsToGo(d, speed) == IF speed = 0 THEN MaxLive + 1 ELSE d \div Travel(speed, MinDT) + 1

\* the calls after which a hostile laser has left [-80, w + 40] x [-40, h + 40]
HostileToGo(b) ==
    Min(IF b.vx < 0 THEN CallsToGo(b.x + 80000, -b.vx) ELSE CallsToGo(W + 40000 - b.x, b.vx),
        IF b.vy < 0 THEN CallsToGo(b.y + 40000, -b.vy) ELSE CallsToGo(H + 40000 - b.y, b.vy))

\* the entity with id i needs no more calls to leave than the game has left
InTime(i) ==
    /\ \A k \in 1..Len(bullets) :
          bullets[k].id = i =>
              frame + CallsToGo(W + 80000 - bullets[k].x, bullets[k].vx) <= MaxLive
    /\ \A k \in 1..Len(ebullets) :
          ebullets[k].id = i => frame + HostileToGo(ebullets[k]) <= MaxLive
    /\ \A k \in 1..Len(enemies) :
          enemies[k].id = i =>
              frame + CallsToGo(enemies[k].x + 80000, -enemies[k].vx) <= MaxLive
    /\ \A k \in 1..Len(shards) :
          shards[k].id = i => frame + CallsToGo(shards[k].ttl, 1000) <= MaxLive

\* the lasers that left the bounds in the call, as they were before it
Strayed(bs, friendly) ==
    {bs[k].id : k \in {j \in 1..Len(bs) :
        IF friendly THEN ~InFriendlyBounds(LaserUpdate(bs[j], last'.dt))
        ELSE ~InHostileBounds(LaserUpdate(bs[j], last'.dt))}}

\* One call seen from the entities.  Those that stay come nearer to their
\* end: an enemy goes left at 80 px/s or more and is still right of -80, a
\* friendly laser goes right at 520 px/s, a hostile one keeps a velocity of
\* magnitude 280 and is inside its bounds (one just fired may lie outside
\* them, the lasers being culled before the enemies fire), a shard has dt
\* less to live and more than 0.  Those that leave do so in one of the ways given: an enemy
\* by death, by x <= -80 or, when vertical is TRUE, by its y outside
\* (-80, h + 80); a laser by a hit or by leaving its bounds; a shard by
\* pickup or by ttl <= 0.
LiveStep(vertical) ==
    frame' # frame =>
      /\ \A k \in 1..Len(enemies') :
            /\ enemies'[k].vx <= -80000
            /\ enemies'[k].x > -80000
            /\ \A j \in 1..Len(enemies) :
                  enemies[j].id = enemies'[k].id =>
                     /\ enemies'[k].vx = enemies[j].vx
                     /\ enemies'[k].x = enemies[j].x + Travel(enemies[j].vx, last'.dt)
      /\ \A k \in 1..Len(bullets') :
            /\ bullets'[k].vx = BulletSpeed
            /\ InFriendlyBounds(bullets'[k])
            /\ \A j \in 1..Len(bullets) :
                  bullets[j].id = bullets'[k].id =>
                     bullets'[k].x = bullets[j].x + Travel(BulletSpeed, last'.dt)
      /\ \A k \in 1..Len(ebullets') :
            /\ Speed280(ebullets'[k].vx, ebullets'[k].vy)
            /\ \A j \in 1..Len(ebullets) :
                  ebullets[j].id = ebullets'[k].id =>
                     /\ ebullets'[k] = LaserUpdate(ebullets[j], last'.dt)
                     /\ InHostileBounds(ebullets'[k])
      /\ \A k \in 1..Len(shards') :
            /\ shards'[k].ttl > 0
            /\ \A j \in 1..Len(shards) :
                  shards[j].id = shards'[k].id => shards'[k].ttl = shards[j].ttl - last'.dt
      /\ \A j \in 1..Len(enemies) :
            enemies[j].id \notin Ids(enemies') =>
               \/ \E i \in 1..Len(last'.dead) :
                     last'.dead[i].id = enemies[j].id /\ last'.dead[i].hp <= 0
               \/ \E i \in 1..Len(last'.culled) :
                     /\ last'.culled[i].id = enemies[j].id
                     /\ \/ last'.culled[i].x <= -80000
                        \/ /\ vertical
                           /\ last'.culled[i].kind = "snake"
                           /\ (last'.culled[i].y <= -80000 \/ last'.culled[i].y >= H + 80000)
      /\ \A j \in 1..Len(bullets) :
            bullets[j].id \notin Ids(bullets') =>
               bullets[j].id \in Hitters \cup Strayed(bullets, TRUE)
      /\ \A j \in 1..Len(ebullets) :
            ebullets[j].id \notin Ids(ebullets') =>
               ebullets[j].id \in last'.struck \cup Strayed(ebullets, FALSE)
      /\ \A j \in 1..Len(shards) :
            shards[j].id \notin Ids(shards') =>
               \/ shards[j].id \in last'.expired /\ shards[j].ttl - last'.dt <= 0
               \/ \E i \in 1..Len(last'.picked) : last'.picked[i].id = shards[j].id

\* C24: with update called for ever and dt never under MinDT, every entity
\* that is in a collection leaves it: each call takes every entity that
\* stays nearer to its end by at least a fixed amount times dt, and an
\* entity that the calls left in the game suffice for is gone in the end.
\* An enemy leaves by death, by x <= -80 or, for a snake, whose y adds the
\* head's sine in every call, by y outside (-80, h + 80); a laser by a hit or
\* by leaving its bounds; a shard by pickup or by ttl <= 0.
EverLeaves ==
    /\ [](nextId - 1 \in LiveIds \cup {0})
    /\ [][LiveStep(TRUE)]_vars
    /\ \A i \in LiveIds : (Present(i) /\ InTime(i)) ~> ~Present(i)

\* after two calls: the world's first entities are all gone, the asteroid
\* across the left edge in the last call together with a red enemy that the
\* first call spawned, and the laser that this enemy fired in the first call
\* is gone as well
EverLeavesWitness ==
    /\ frame = 2
    /\ \A i \in 1..5 : ~Present(i)
    /\ \E i \in 1..Len(last.culled) : last.culled[i].id = 3 /\ last.culled[i].x <= -80000
    /\ \E i \in 1..Len(last.culled) :
          /\ last.culled[i].kind = "red"
          /\ last.culled[i].id + 1 < last.was.nextId
          /\ ~Present(last.culled[i].id + 1)

\* C24 as stated: the same, with death and x <= -80 the only ways an enemy
\* leaves
EverLeavesAsClaimed ==
    /\ [][LiveStep(FALSE)]_vars
    /\ \A i \in LiveIds : (Present(i) /\ InTime(i)) ~> ~Present(i)

\* the instance ids of the devices that the scan opened: those of the
\* indices on which Joystick(i), init() and get_instance_id() all returned
Opened(scan) ==
    {scan.devs[i].iid : i \in {k \in 1..Len(scan.devs) : scan.devs[k].fault # "open"}}

\* the lines that the last call gave to the log function
Said == {jm.log[k] : k \in jm.mark + 1..Len(jm.log)}

\* C25: when rescan has returned, the registered instance ids are those of
\* the devices the scan opened: each of them is registered, under the
\* Joystick object it had if it was registered before and under one made by
\* this call if not; every id registered before and not seen is removed and
\* its removal logged; every index that could not be opened is logged, and
\* the devices on the indices after it are registered all the same.
RescanSync ==
    jm.kind = "rescan" =>
        /\ Keys(jm.joysticks) = Opened(jm.scan)
        /\ Len(jm.joysticks) = Cardinality(Keys(jm.joysticks))
        /\ \A k \in 1..Len(jm.was) :
              IF jm.was[k].iid \in Opened(jm.scan)
              THEN \E j \in 1..Len(jm.joysticks) : jm.joysticks[j] = jm.was[k]
              ELSE Line("REM", -1, jm.was[k].iid) \in Said
        /\ \A j \in 1..Len(jm.joysticks) :
              jm.joysticks[j].iid \notin Keys(jm.was) => jm.joysticks[j].made = jm.calls
        /\ \A i \in 1..Len(jm.scan.devs) :
              jm.scan.devs[i].fault = "open" => Line("ERR", i - 1, -1) \in Said
        /\ jm.scan.fails => Line("ERR", -1, -1) \in Said

\* a second scan: index 0 cannot be opened, the device on index 1 was
\* registered by the first scan and keeps its object, and the other device
\* of the first scan is gone and removed
RescanSyncWitness ==
    /\ jm.kind = "rescan"
    /\ jm.calls = 2
    /\ Len(jm.scan.devs) = 2
    /\ jm.scan.devs[1].fault = "open"
    /\ jm.joysticks = <<Joy(jm.scan.devs[2].iid, 1)>>
    /\ Len(jm.was) = 2
    /\ Line("ERR", 0, -1) \in Said
    /\ \E k \in 1..2 : Line("REM", -1, jm.was[k].iid) \in Said

====
